---- MODULE Spec2Model ----
(***************************************************************************)
(* Model of scripts/openrouter_pricing_sync.py: one invocation fetches the *)
(* OpenRouter model list, extracts the pricing object of every entry and   *)
(* writes the list as indented JSON to a fixed path.                       *)
(*                                                                         *)
(* Text (an HTTP body, the destination file's content) is a sequence of    *)
(* one-character strings.  A decoded JSON value is a record                *)
(*     [t |-> kind, s |-> characters, kids |-> sequence]                   *)
(* with kind "null", "num", "str", "arr", "obj"; a dict keeps its items in *)
(* insertion order as a sequence of "pair" records (s = key, kids =        *)
(* <<value>>), the way a Python dict does.  Numbers are non-negative       *)
(* integers kept as their digits; true, false and floats are left out.     *)
(*                                                                         *)
(* The environment decides the endpoint's answer and whether mkdir, open   *)
(* and write succeed; printing to the standard streams always succeeds.    *)
(* An exception that main does not catch ends the process with a traceback *)
(* on standard error and exit status 1.                                    *)
(***************************************************************************)
EXTENDS Integers, Sequences, FiniteSets, TLC

(* ------------------------------------------------------------------ *)
(* JSON values                                                          *)
(* ------------------------------------------------------------------ *)

JNull == [t |-> "null", s |-> <<>>, kids |-> <<>>]

JNum(ds) == [t |-> "num", s |-> ds, kids |-> <<>>]

JStr(cs) == [t |-> "str", s |-> cs, kids |-> <<>>]

JArr(items) == [t |-> "arr", s |-> <<>>, kids |-> items]

JPair(k, v) == [t |-> "pair", s |-> k, kids |-> <<v>>]

JObj(pairs) == [t |-> "obj", s |-> <<>>, kids |-> pairs]

EmptyDict == JObj(<<>>)

(* dict.get(key, default): the value stored under key, else default. *)
DictGet(d, key, default) ==
    IF \E i \in 1..Len(d.kids) : d.kids[i].s = key
    THEN LET i == CHOOSE j \in 1..Len(d.kids) : d.kids[j].s = key
         IN  d.kids[i].kids[1]
    ELSE default

(* d[key] = v on an insertion-ordered dict: an existing key keeps its place. *)
DictPut(pairs, key, v) ==
    IF \E i \in 1..Len(pairs) : pairs[i].s = key
    THEN [i \in 1..Len(pairs) |-> IF pairs[i].s = key THEN JPair(key, v) ELSE pairs[i]]
    ELSE Append(pairs, JPair(key, v))

(* ------------------------------------------------------------------ *)
(* json.dumps(value, indent=2)                                          *)
(* ------------------------------------------------------------------ *)

Indent == 2

Digits == {"0", "1", "2", "3", "4", "5", "6", "7", "8", "9"}

Whitespace == {" ", "\n", "\t", "\r"}

RECURSIVE Spaces(_)
Spaces(n) == IF n = 0 THEN <<>> ELSE <<" ">> \o Spaces(n - 1)

(* A newline followed by the indentation of a nesting level. *)
NewlineIndent(level) == <<"\n">> \o Spaces(Indent * level)

(* Mutant: an encoder that escapes nothing. *)
EscapeCharNone(c) == <<c>>

(* The encoder's escape of one character of a string. *)
EscapeChar(c) ==
    CASE c = "\"" -> <<"\\", "\"">>
      [] c = "\\" -> <<"\\", "\\">>
      [] c = "\n" -> <<"\\", "n">>
      [] c = "\t" -> <<"\\", "t">>
      [] c = "\r" -> <<"\\", "r">>
      [] OTHER    -> <<c>>

RECURSIVE EscapeAll(_)
EscapeAll(cs) == IF cs = <<>> THEN <<>> ELSE EscapeChar(Head(cs)) \o EscapeAll(Tail(cs))

EncodeString(cs) == <<"\"">> \o EscapeAll(cs) \o <<"\"">>

RECURSIVE DumpsValue(_, _), DumpsItems(_, _), DumpsPairs(_, _)
DumpsValue(v, level) ==
    CASE v.t = "null" -> <<"n", "u", "l", "l">>
      [] v.t = "num"  -> v.s
      [] v.t = "str"  -> EncodeString(v.s)
      [] v.t = "arr"  ->
            IF v.kids = <<>> THEN <<"[", "]">>
            ELSE <<"[">> \o DumpsItems(v.kids, level + 1)
                         \o NewlineIndent(level) \o <<"]">>
      [] v.t = "obj"  ->
            IF v.kids = <<>> THEN <<"{", "}">>
            ELSE <<"{">> \o DumpsPairs(v.kids, level + 1)
                         \o NewlineIndent(level) \o <<"}">>

DumpsItems(items, level) ==
    IF items = <<>> THEN <<>>
    ELSE NewlineIndent(level) \o DumpsValue(Head(items), level)
         \o (IF Len(items) > 1 THEN <<",">> ELSE <<>>)
         \o DumpsItems(Tail(items), level)

DumpsPairs(pairs, level) ==
    IF pairs = <<>> THEN <<>>
    ELSE NewlineIndent(level) \o EncodeString(Head(pairs).s) \o <<":", " ">>
         \o DumpsValue(Head(pairs).kids[1], level)
         \o (IF Len(pairs) > 1 THEN <<",">> ELSE <<>>)
         \o DumpsPairs(Tail(pairs), level)

json_dumps(v) == DumpsValue(v, 0)

(* ------------------------------------------------------------------ *)
(* json.load / json.loads                                               *)
(* ------------------------------------------------------------------ *)

ParseFail == [ok |-> FALSE, val |-> JNull, pos |-> 0]

ParseOk(v, p) == [ok |-> TRUE, val |-> v, pos |-> p]

RECURSIVE SkipWs(_, _)
SkipWs(txt, i) ==
    IF i <= Len(txt) /\ txt[i] \in Whitespace THEN SkipWs(txt, i + 1) ELSE i

(* The decoder's reading of the character after a backslash. *)
UnescapeChar(c) ==
    CASE c = "\"" -> <<"\"">>
      [] c = "\\" -> <<"\\">>
      [] c = "/"  -> <<"/">>
      [] c = "n"  -> <<"\n">>
      [] c = "t"  -> <<"\t">>
      [] c = "r"  -> <<"\r">>
      [] OTHER    -> <<>>

(* Characters of a string literal from position i (just after the opening
   quote) to its closing quote; a raw control character is an error. *)
RECURSIVE ParseChars(_, _, _)
ParseChars(txt, i, acc) ==
    IF i > Len(txt) THEN ParseFail
    ELSE IF txt[i] = "\"" THEN ParseOk(JStr(acc), i + 1)
    ELSE IF txt[i] \in {"\n", "\t", "\r"} THEN ParseFail
    ELSE IF txt[i] = "\\"
         THEN IF i + 1 > Len(txt) \/ UnescapeChar(txt[i + 1]) = <<>>
              THEN ParseFail
              ELSE ParseChars(txt, i + 2, acc \o UnescapeChar(txt[i + 1]))
    ELSE ParseChars(txt, i + 1, Append(acc, txt[i]))

RECURSIVE DigitsEnd(_, _)
DigitsEnd(txt, i) ==
    IF i <= Len(txt) /\ txt[i] \in Digits THEN DigitsEnd(txt, i + 1) ELSE i

(* An integer literal: "0", or a non-zero digit followed by digits. *)
ParseNumber(txt, i) ==
    LET e == IF txt[i] = "0" THEN i + 1 ELSE DigitsEnd(txt, i)
    IN  ParseOk(JNum(SubSeq(txt, i, e - 1)), e)

ParseNull(txt, i) ==
    IF i + 3 <= Len(txt) /\ SubSeq(txt, i, i + 3) = <<"n", "u", "l", "l">>
    THEN ParseOk(JNull, i + 4)
    ELSE ParseFail

RECURSIVE ParseValue(_, _), ParseItems(_, _, _), ParsePairs(_, _, _)
ParseValue(txt, i0) ==
    LET i == SkipWs(txt, i0) IN
    IF i > Len(txt) THEN ParseFail
    ELSE CASE txt[i] = "\"" -> ParseChars(txt, i + 1, <<>>)
           [] txt[i] = "n"  -> ParseNull(txt, i)
           [] txt[i] \in Digits -> ParseNumber(txt, i)
           [] txt[i] = "["  ->
                 LET j == SkipWs(txt, i + 1) IN
                 IF j <= Len(txt) /\ txt[j] = "]" THEN ParseOk(JArr(<<>>), j + 1)
                 ELSE ParseItems(txt, j, <<>>)
           [] txt[i] = "{"  ->
                 LET j == SkipWs(txt, i + 1) IN
                 IF j <= Len(txt) /\ txt[j] = "}" THEN ParseOk(JObj(<<>>), j + 1)
                 ELSE ParsePairs(txt, j, <<>>)
           [] OTHER -> ParseFail

(* The elements of a non-empty array, from the first element on. *)
ParseItems(txt, i, acc) ==
    LET r == ParseValue(txt, i) IN
    IF ~r.ok THEN ParseFail
    ELSE LET j == SkipWs(txt, r.pos) IN
         IF j > Len(txt) THEN ParseFail
         ELSE IF txt[j] = "]" THEN ParseOk(JArr(Append(acc, r.val)), j + 1)
         ELSE IF txt[j] = "," THEN ParseItems(txt, j + 1, Append(acc, r.val))
         ELSE ParseFail

(* The items of a non-empty object, from the first key on; a repeated key
   keeps its first position and takes the last value. *)
ParsePairs(txt, i0, acc) ==
    LET i == SkipWs(txt, i0) IN
    IF i > Len(txt) \/ txt[i] # "\"" THEN ParseFail
    ELSE LET k == ParseChars(txt, i + 1, <<>>) IN
         IF ~k.ok THEN ParseFail
         ELSE LET c == SkipWs(txt, k.pos) IN
              IF c > Len(txt) \/ txt[c] # ":" THEN ParseFail
              ELSE LET r == ParseValue(txt, c + 1) IN
                   IF ~r.ok THEN ParseFail
                   ELSE LET j == SkipWs(txt, r.pos)
                            acc2 == DictPut(acc, k.val.s, r.val)
                        IN  IF j > Len(txt) THEN ParseFail
                            ELSE IF txt[j] = "}" THEN ParseOk(JObj(acc2), j + 1)
                            ELSE IF txt[j] = "," THEN ParsePairs(txt, j + 1, acc2)
                            ELSE ParseFail

(* The whole text is one JSON document, surrounded by optional whitespace. *)
json_load(txt) ==
    LET r == ParseValue(txt, 1) IN
    IF r.ok /\ SkipWs(txt, r.pos) = Len(txt) + 1 THEN r ELSE ParseFail

(* ------------------------------------------------------------------ *)
(* Program constants                                                    *)
(* ------------------------------------------------------------------ *)

(* The only status fetch_models accepts. *)
HttpOk == 200

(* OUTPUT_PATH.parent is crates/ploke-tui/data/models: four directories. *)
NumParents == 4

OUTPUT_PATH == "crates/ploke-tui/data/models/all_pricing_parsed.json"

KeyData == <<"d", "a", "t", "a">>

KeyPricing == <<"p", "r", "i", "c", "i", "n", "g">>

KeyId == <<"i", "d">>

(* ------------------------------------------------------------------ *)
(* extract_pricing                                                      *)
(* ------------------------------------------------------------------ *)

(* What a for-loop over a value visits: the elements of a list, the keys
   of a dict, the characters of a string.  None and numbers are not
   iterable (TypeError). *)
Iterable(v) == v.t \in {"arr", "obj", "str"}

IterItems(v) ==
    CASE v.t = "arr" -> v.kids
      [] v.t = "obj" -> [i \in 1..Len(v.kids) |-> JStr(v.kids[i].s)]
      [] v.t = "str" -> [i \in 1..Len(v.s) |-> JStr(<<v.s[i]>>)]
      [] OTHER       -> <<>>

ExtractOk(list) == [ok |-> TRUE, val |-> list, err |-> "none"]

ExtractRaise(e) == [ok |-> FALSE, val |-> <<>>, err |-> e]

(* Mutant: entries without a pricing key are left out. *)
extract_pricing_skip_missing(models_payload) ==
    IF models_payload.t # "obj" THEN ExtractRaise("AttributeError")
    ELSE LET data == DictGet(models_payload, KeyData, JArr(<<>>)) IN
         IF ~Iterable(data) THEN ExtractRaise("TypeError")
         ELSE LET entries == IterItems(data) IN
              IF \E i \in 1..Len(entries) : entries[i].t # "obj"
              THEN ExtractRaise("AttributeError")
              ELSE LET priced == SelectSeq(entries,
                                   LAMBDA e : DictGet(e, KeyPricing, JNull) # JNull)
                   IN  ExtractOk([i \in 1..Len(priced) |->
                                     DictGet(priced[i], KeyPricing, EmptyDict)])

(* Mutant: entry["pricing"] in place of entry.get("pricing", {}). *)
extract_pricing_subscript(models_payload) ==
    IF models_payload.t # "obj" THEN ExtractRaise("AttributeError")
    ELSE LET data == DictGet(models_payload, KeyData, JArr(<<>>)) IN
         IF ~Iterable(data) THEN ExtractRaise("TypeError")
         ELSE LET entries == IterItems(data) IN
              IF \E i \in 1..Len(entries) : entries[i].t # "obj"
              THEN ExtractRaise("AttributeError")
              ELSE IF \E i \in 1..Len(entries) :
                        \A j \in 1..Len(entries[i].kids) :
                            entries[i].kids[j].s # KeyPricing
              THEN ExtractRaise("KeyError")
              ELSE ExtractOk([i \in 1..Len(entries) |->
                                 DictGet(entries[i], KeyPricing, EmptyDict)])

(* Only a dict has .get: the lookup on any other value is an
   AttributeError, on the payload as on an entry. *)
extract_pricing(models_payload) ==
    IF models_payload.t # "obj" THEN ExtractRaise("AttributeError")
    ELSE LET data == DictGet(models_payload, KeyData, JArr(<<>>)) IN
         IF ~Iterable(data) THEN ExtractRaise("TypeError")
         ELSE LET entries == IterItems(data) IN
              IF \E i \in 1..Len(entries) : entries[i].t # "obj"
              THEN ExtractRaise("AttributeError")
              ELSE ExtractOk([i \in 1..Len(entries) |->
                                 DictGet(entries[i], KeyPricing, EmptyDict)])

(* ------------------------------------------------------------------ *)
(* Inputs                                                               *)
(* ------------------------------------------------------------------ *)

(* Longest data list of the inputs of the function-level specification. *)
MaxEntries == 2

Str1 == JStr(<<"1">>)

(* {"id": "m", "pricing": {"p": "1"}} *)
EntryPriced == JObj(<<JPair(KeyId, JStr(<<"m">>)),
                      JPair(KeyPricing, JObj(<<JPair(<<"p">>, Str1)>>))>>)

(* {"pricing": {"c": "a\"\\\n"}}: a value the encoder has to escape *)
EntryEscaped == JObj(<<JPair(KeyPricing,
                        JObj(<<JPair(<<"c">>, JStr(<<"a", "\"", "\\", "\n">>))>>))>>)

(* {"id": "m"}: no pricing key *)
EntryUnpriced == JObj(<<JPair(KeyId, JStr(<<"m">>))>>)

(* {"pricing": {"p": "1", "r": [10, null, {}]}}: nested values *)
EntryNested == JObj(<<JPair(KeyPricing,
                       JObj(<<JPair(<<"p">>, Str1),
                              JPair(<<"r">>, JArr(<<JNum(<<"1", "0">>), JNull,
                                                    EmptyDict>>))>>))>>)

(* "x": an entry that is not an object *)
EntryScalar == JStr(<<"x">>)

ObjectEntries == {EntryPriced, EntryEscaped, EntryUnpriced, EntryNested}

EntryShapes == ObjectEntries \cup {EntryScalar}

SeqsUpTo(S, n) == UNION {[1..k -> S] : k \in 0..n}

WithData(d) == JObj(<<JPair(<<"o">>, Str1), JPair(KeyData, d)>>)

(* Decoded bodies whose data is not a list of entries. *)
OddPayloads ==
    { EmptyDict,                                  \* data absent
      JObj(<<JPair(<<"o">>, Str1)>>),             \* data absent, other keys
      WithData(JNull),                            \* data: null
      WithData(JNum(<<"7">>)),                    \* data: 7
      WithData(JStr(<<>>)),                       \* data: ""
      WithData(JStr(<<"a", "b">>)),               \* data: "ab"
      WithData(EmptyDict),                        \* data: {}
      WithData(EntryPriced),                      \* data: a dict
      JArr(<<EntryPriced>>),                      \* the body is a list
      JNull }                                     \* the body is null

UnitPayloads ==
    {WithData(JArr(es)) : es \in SeqsUpTo(EntryShapes, MaxEntries)} \cup OddPayloads

(* Decoded bodies of the whole-program specification. *)
RunPayloads ==
    { EmptyDict,
      WithData(JArr(<<>>)),
      WithData(JArr(<<EntryPriced>>)),
      WithData(JArr(<<EntryUnpriced, EntryEscaped>>)),
      WithData(JArr(<<EntryScalar>>)),
      WithData(JNull),
      JArr(<<EntryPriced>>) }

Response(up, st, b) == [reachable |-> up, status |-> st, body |-> b]

NoResponse == Response(FALSE, 0, <<>>)

GoodBody == json_dumps(WithData(JArr(<<EntryPriced>>)))

(* Bodies that are not JSON: an HTML page, a document cut short, a document
   followed by more text. *)
BadBodies ==
    { <<"<", "h", "t", "m", "l", ">">>,
      SubSeq(GoodBody, 1, Len(GoodBody) - 1),
      GoodBody \o <<"x">>,
      <<>> }

Responses ==
    {Response(TRUE, HttpOk, json_dumps(p)) : p \in RunPayloads}
    \cup {Response(TRUE, HttpOk, b) : b \in BadBodies}
    \cup {Response(TRUE, st, GoodBody) : st \in {204, 404, 500}}
    \cup {Response(TRUE, 500, <<"<", "h", "t", "m", "l", ">">>), NoResponse}

FileAbsent == [exists |-> FALSE, text |-> <<>>]

FileWith(txt) == [exists |-> TRUE, text |-> txt]

(* The destination before the first run: absent, with any number of its
   parent directories present, or present with an earlier artifact or with
   text that is no artifact of this program. *)
InitFs ==
    {[dirs |-> d, file |-> FileAbsent] : d \in 0..NumParents}
    \cup {[dirs |-> NumParents, file |-> FileWith(t)] :
            t \in {json_dumps(JArr(<<EmptyDict>>)), <<"o", "l", "d">>}}

(* ------------------------------------------------------------------ *)
(* State                                                                *)
(* ------------------------------------------------------------------ *)

VARIABLES
    pc,          \* position of the process in main / write_pricing
    resp,        \* what the endpoint answers in this run
    payload,     \* main: payload
    pricing,     \* main: pricing (a Python list, as a sequence)
    dirs,        \* how many of the destination's parent directories exist
    file,        \* the destination file
    stdout,      \* lines printed to standard output by this process
    stderr,      \* lines printed to standard error by this process
    exitStatus,  \* exit status of the process, -1 while it runs
    raised,      \* the uncaught exception that ended the process, or "none"
    steps,       \* history: the functions main has entered, in order
    pre,         \* history: dirs and file when the process started
    prev         \* history: response and artifact of the previous run, if it succeeded

vars == <<pc, resp, payload, pricing, dirs, file, stdout, stderr, exitStatus,
          raised, steps, pre, prev>>

NoPrev == [ok |-> FALSE, resp |-> NoResponse, text |-> <<>>]

Line(m, n) == [msg |-> m, count |-> n, path |-> OUTPUT_PATH]

ProcessStart(fs) ==
    /\ resp = NoResponse
    /\ payload = JNull
    /\ pricing = <<>>
    /\ dirs = fs.dirs
    /\ file = fs.file
    /\ stdout = <<>>
    /\ stderr = <<>>
    /\ exitStatus = -1
    /\ raised = "none"
    /\ pre = fs

Init ==
    /\ pc = "start"
    /\ steps = <<>>
    /\ prev = NoPrev
    /\ \E fs \in InitFs : ProcessStart(fs)

(* An exception nothing catches: the interpreter prints the traceback to
   standard error and the process exits with status 1. *)
Uncaught(e) ==
    /\ pc' = "done"
    /\ raised' = e
    /\ exitStatus' = 1
    /\ stderr' = Append(stderr, Line("Traceback", 0))

(* ------------------------------------------------------------------ *)
(* main                                                                 *)
(* ------------------------------------------------------------------ *)

(* Mutant: fetch_models without the status check of its second line. *)
fetch_models_any_status ==
    /\ pc = "start"
    /\ steps' = Append(steps, "fetch")
    /\ \E r \in Responses :
        /\ resp' = r
        /\ IF ~r.reachable
           THEN Uncaught("URLError") /\ UNCHANGED payload
           ELSE IF r.status \notin 200..299
           THEN Uncaught("HTTPError") /\ UNCHANGED payload
           ELSE LET p == json_load(r.body) IN
                IF ~p.ok
                THEN Uncaught("JSONDecodeError") /\ UNCHANGED payload
                ELSE /\ payload' = p.val
                     /\ pc' = "fetched"
                     /\ UNCHANGED <<raised, exitStatus, stderr>>
    /\ UNCHANGED <<pricing, dirs, file, stdout, pre, prev>>

(* payload = fetch_models() *)
fetch_models ==
    /\ pc = "start"
    /\ steps' = Append(steps, "fetch")
    /\ \E r \in Responses :
        /\ resp' = r
        /\ IF ~r.reachable
           THEN Uncaught("URLError") /\ UNCHANGED payload
           ELSE IF r.status \notin 200..299
           THEN Uncaught("HTTPError") /\ UNCHANGED payload
           ELSE IF r.status # HttpOk
           THEN Uncaught("RuntimeError") /\ UNCHANGED payload
           ELSE LET p == json_load(r.body) IN
                IF ~p.ok
                THEN Uncaught("JSONDecodeError") /\ UNCHANGED payload
                ELSE /\ payload' = p.val
                     /\ pc' = "fetched"
                     /\ UNCHANGED <<raised, exitStatus, stderr>>
    /\ UNCHANGED <<pricing, dirs, file, stdout, pre, prev>>

(* pricing = extract_pricing(payload) *)
main_extract ==
    /\ pc = "fetched"
    /\ steps' = Append(steps, "extract")
    /\ LET r == extract_pricing(payload) IN
       IF r.ok
       THEN /\ pricing' = r.val
            /\ pc' = "extracted"
            /\ UNCHANGED <<raised, exitStatus, stderr>>
       ELSE Uncaught(r.err) /\ UNCHANGED pricing
    /\ UNCHANGED <<resp, payload, dirs, file, stdout, pre, prev>>

(* Mutant: main without the empty-list gate. *)
main_validate_no_gate ==
    /\ pc = "extracted"
    /\ steps' = Append(steps, "validate")
    /\ pc' = "write"
    /\ UNCHANGED <<stderr, exitStatus>>
    /\ UNCHANGED <<resp, payload, pricing, dirs, file, stdout, raised, pre, prev>>

(* Mutant: the diagnostic printed without file=sys.stderr. *)
main_validate_to_stdout ==
    /\ pc = "extracted"
    /\ steps' = Append(steps, "validate")
    /\ IF pricing = <<>>
       THEN /\ stdout' = Append(stdout, Line("NoPricing", 0))
            /\ exitStatus' = 1
            /\ pc' = "done"
       ELSE /\ pc' = "write"
            /\ UNCHANGED <<stdout, exitStatus>>
    /\ UNCHANGED <<resp, payload, pricing, dirs, file, stderr, raised, pre, prev>>

(* Mutant: the parent directories made in main, ahead of the gate. *)
main_validate_after_mkdir ==
    /\ pc = "extracted"
    /\ steps' = Append(steps, "validate")
    /\ dirs' = NumParents
    /\ IF pricing = <<>>
       THEN /\ stderr' = Append(stderr, Line("NoPricing", 0))
            /\ exitStatus' = 1
            /\ pc' = "done"
       ELSE /\ pc' = "write"
            /\ UNCHANGED <<stderr, exitStatus>>
    /\ UNCHANGED <<resp, payload, pricing, file, stdout, raised, pre, prev>>

(* if not pricing: print(..., file=sys.stderr); return 1 *)
main_validate ==
    /\ pc = "extracted"
    /\ steps' = Append(steps, "validate")
    /\ IF pricing = <<>>
       THEN /\ stderr' = Append(stderr, Line("NoPricing", 0))
            /\ exitStatus' = 1
            /\ pc' = "done"
       ELSE /\ pc' = "write"
            /\ UNCHANGED <<stderr, exitStatus>>
    /\ UNCHANGED <<resp, payload, pricing, dirs, file, stdout, raised, pre, prev>>

(* write_pricing: OUTPUT_PATH.parent.mkdir(parents=True, exist_ok=True).
   The missing directories are made outermost first; a failure (permission,
   disk) leaves the ones already made. *)
write_pricing_mkdir ==
    /\ pc = "write"
    /\ steps' = Append(steps, "write")
    /\ \/ /\ dirs' = NumParents
          /\ pc' = "write_open"
          /\ UNCHANGED <<raised, exitStatus, stderr>>
       \/ \E k \in dirs..(NumParents - 1) :
            /\ dirs' = k
            /\ Uncaught("OSError")
    /\ UNCHANGED <<resp, payload, pricing, file, stdout, pre, prev>>

(* Mutant: the file opened for appending. *)
write_pricing_open_append ==
    /\ pc = "write_open"
    /\ \/ /\ file' = FileWith(file.text)
          /\ pc' = "write_data"
          /\ UNCHANGED <<raised, exitStatus, stderr>>
       \/ /\ Uncaught("OSError")
          /\ UNCHANGED file
    /\ UNCHANGED <<resp, payload, pricing, dirs, stdout, steps, pre, prev>>

(* write_pricing: OUTPUT_PATH.write_text(...) opens the file for writing,
   which creates it or cuts it to length zero; the open can be refused. *)
write_pricing_open ==
    /\ pc = "write_open"
    /\ \/ /\ file' = FileWith(<<>>)
          /\ pc' = "write_data"
          /\ UNCHANGED <<raised, exitStatus, stderr>>
       \/ /\ Uncaught("OSError")
          /\ UNCHANGED file
    /\ UNCHANGED <<resp, payload, pricing, dirs, stdout, steps, pre, prev>>

(* write_pricing: write_text writes json.dumps(pricing, indent=2) and closes
   the file; a failing write (disk full) leaves the part already written. *)
write_pricing_write ==
    /\ pc = "write_data"
    /\ LET text == json_dumps(JArr(pricing)) IN
       \/ /\ file' = FileWith(file.text \o text)
          /\ pc' = "write_print"
          /\ UNCHANGED <<raised, exitStatus, stderr>>
       \/ \E k \in 0..(Len(text) - 1) :
            /\ file' = FileWith(file.text \o SubSeq(text, 1, k))
            /\ Uncaught("OSError")
    /\ UNCHANGED <<resp, payload, pricing, dirs, stdout, steps, pre, prev>>

(* write_pricing: print(f"Wrote {len(pricing)} pricing entries to {OUTPUT_PATH}") *)
write_pricing_print ==
    /\ pc = "write_print"
    /\ stdout' = Append(stdout, Line("Wrote", Len(pricing)))
    /\ pc' = "written"
    /\ UNCHANGED <<resp, payload, pricing, dirs, file, stderr, exitStatus,
                   raised, steps, pre, prev>>

(* Mutant: main returns 1 after writing. *)
main_return_one ==
    /\ pc = "written"
    /\ exitStatus' = 1
    /\ pc' = "done"
    /\ UNCHANGED <<resp, payload, pricing, dirs, file, stdout, stderr,
                   raised, steps, pre, prev>>

(* return 0, and raise SystemExit(main()) *)
main_return ==
    /\ pc = "written"
    /\ exitStatus' = 0
    /\ pc' = "done"
    /\ UNCHANGED <<resp, payload, pricing, dirs, file, stdout, stderr,
                   raised, steps, pre, prev>>

(* The script is invoked again: a new process on the file system the last
   one left. *)
Invoke ==
    /\ pc = "done"
    /\ pc' = "start"
    /\ steps' = <<>>
    /\ prev' = IF exitStatus = 0
               THEN [ok |-> TRUE, resp |-> resp, text |-> file.text]
               ELSE NoPrev
    /\ resp' = NoResponse
    /\ payload' = JNull
    /\ pricing' = <<>>
    /\ stdout' = <<>>
    /\ stderr' = <<>>
    /\ exitStatus' = -1
    /\ raised' = "none"
    /\ pre' = [dirs |-> dirs, file |-> file]
    /\ UNCHANGED <<dirs, file>>

Next ==
    \/ fetch_models
    \/ main_extract
    \/ main_validate
    \/ write_pricing_mkdir
    \/ write_pricing_open
    \/ write_pricing_write
    \/ write_pricing_print
    \/ main_return
    \/ Invoke

Spec == Init /\ [][Next]_vars

(* ------------------------------------------------------------------ *)
(* Function-level specification: extract_pricing and write_pricing on   *)
(* every payload of UnitPayloads, one process, fetch already done.      *)
(* ------------------------------------------------------------------ *)

InitUnit ==
    /\ pc = "fetched"
    /\ steps = <<"fetch">>
    /\ prev = NoPrev
    /\ \E fs \in InitFs : \E p \in UnitPayloads :
        /\ resp = Response(TRUE, HttpOk, json_dumps(p))
        /\ payload = p
        /\ pricing = <<>>
        /\ dirs = fs.dirs
        /\ file = fs.file
        /\ stdout = <<>>
        /\ stderr = <<>>
        /\ exitStatus = -1
        /\ raised = "none"
        /\ pre = fs

NextUnit ==
    \/ main_extract
    \/ main_validate
    \/ write_pricing_mkdir
    \/ write_pricing_open
    \/ write_pricing_write
    \/ write_pricing_print
    \/ main_return

SpecUnit == InitUnit /\ [][NextUnit]_vars

(* ------------------------------------------------------------------ *)
(* Properties                                                           *)
(* ------------------------------------------------------------------ *)

Entered(f) == \E i \in 1..Len(steps) : steps[i] = f

MainOrder == <<"fetch", "extract", "validate", "write">>

(* extract_pricing was called and raised / was called and returned. *)
ExtractRaised == steps = <<"fetch", "extract">> /\ raised # "none"

ExtractReturned == Entered("extract") /\ ~ExtractRaised

EmptyListPath == ExtractReturned /\ pricing = <<>>

HasKey(d, key) == \E j \in 1..Len(d.kids) : d.kids[j].s = key

(* The artifact of the current pricing list is what the file holds. *)
FileIsArtifact == file = FileWith(json_dumps(JArr(pricing)))

Untouched == dirs = pre.dirs /\ file = pre.file

(* print in write_pricing, its last statement, has run. *)
WriterCompleted ==
    Entered("write") /\ raised = "none" /\ pc \in {"written", "done"}

Diagnosed == \E i \in 1..Len(stderr) : stderr[i].msg = "NoPricing"

(* C1: when extract_pricing yields the empty list (data absent or empty),
   write_pricing is never entered, the process ends with status 1 and the
   destination file is what it was before the run. *)
C1_EmptyListGate ==
    EmptyListPath =>
        /\ pc \in {"extracted", "done"}
        /\ ~Entered("write")
        /\ file = pre.file
        /\ pc = "done" => exitStatus = 1

C1_Witness ==
    /\ pc = "done"
    /\ EmptyListPath
    /\ exitStatus = 1
    /\ pre.file.exists
    /\ ~HasKey(payload, KeyData)

(* C2 (as claimed): in every terminal state the destination file is its
   pre-run content or the complete artifact of a non-empty list. *)
C2_AllOrNothing ==
    pc = "done" =>
        \/ file = pre.file
        \/ pricing # <<>> /\ FileIsArtifact

(* The payload is an object whose data is absent or a list of objects. *)
WellShaped(p) ==
    /\ p.t = "obj"
    /\ \A j \in 1..Len(p.kids) :
          p.kids[j].s = KeyData =>
              /\ p.kids[j].kids[1].t = "arr"
              /\ \A i \in 1..Len(p.kids[j].kids[1].kids) :
                    p.kids[j].kids[1].kids[i].t = "obj"

(* The entries of a well-shaped payload. *)
EntriesOf(p) ==
    IF HasKey(p, KeyData)
    THEN (CHOOSE e \in {p.kids[j] : j \in 1..Len(p.kids)} : e.s = KeyData).kids[1].kids
    ELSE <<>>

(* C3: on a payload whose data is absent or a list of objects,
   extract_pricing returns one element per entry, in order: the entry's
   pricing value, or {} for an entry without the key. *)
C3_ExtractPositional ==
    (Entered("extract") /\ WellShaped(payload)) =>
        /\ ExtractReturned
        /\ Len(pricing) = Len(EntriesOf(payload))
        /\ \A i \in 1..Len(pricing) :
              LET e == EntriesOf(payload)[i] IN
              \/ \E j \in 1..Len(e.kids) : e.kids[j] = JPair(KeyPricing, pricing[i])
              \/ ~HasKey(e, KeyPricing) /\ pricing[i] = EmptyDict

C3_Witness ==
    /\ pc = "extracted"
    /\ EntriesOf(payload) = <<EntryUnpriced, EntryPriced>>
    /\ pricing = <<EmptyDict, JObj(<<JPair(<<"p">>, Str1)>>)>>

FetchFails(r) == ~r.reachable \/ r.status # HttpOk \/ r.body \in BadBodies

(* C4: when the status is not 200 or the body is not JSON, the run ends in
   fetch_models with an exception: extract_pricing and write_pricing are not
   entered, nothing is written, and the status is not 0. *)
C4_FetchFailureAborts ==
    (Entered("fetch") /\ FetchFails(resp)) =>
        /\ pc = "done"
        /\ steps = <<"fetch">>
        /\ raised \in {"URLError", "HTTPError", "RuntimeError", "JSONDecodeError"}
        /\ exitStatus # 0
        /\ Untouched

C4_Witness ==
    /\ pc = "done"
    /\ resp.reachable /\ resp.status = 500
    /\ raised = "HTTPError"
    /\ pre.file.exists

(* C5: once write_pricing has written a non-empty list, decoding the
   destination file gives that list back: same elements in the same order,
   same keys and values in each. *)
C5_RoundTrip ==
    (Entered("write") /\ pc \in {"write_print", "written"}) =>
        /\ pricing # <<>>
        /\ file.exists
        /\ json_load(file.text).ok
        /\ json_load(file.text).val = JArr(pricing)

C5_Witness ==
    /\ pc = "written"
    /\ Len(pricing) = 2
    /\ pricing[1] = DictGet(EntryEscaped, KeyPricing, JNull)
    /\ pricing[2] = DictGet(EntryNested, KeyPricing, JNull)
    /\ json_load(file.text).val = JArr(pricing)

(* C6 (as claimed): extract_pricing raises on no response object. *)
C6_NeverRaises == payload.t = "obj" => ~ExtractRaised

(* The value under data of an object payload that has the key. *)
DataOf(p) ==
    (CHOOSE e \in {p.kids[j] : j \in 1..Len(p.kids)} : e.s = KeyData).kids[1]

(* Data that a loop with .get on every element gets through. *)
DataTolerated(d) ==
    \/ d.t = "arr" /\ \A i \in 1..Len(d.kids) : d.kids[i].t = "obj"
    \/ d.t = "str" /\ d.s = <<>>
    \/ d.t = "obj" /\ d.kids = <<>>

(* C6 (amended): on a response object extract_pricing returns a sequence
   exactly when data is absent, a list of objects, or an empty string or
   dict; it raises when data is null or a number, or has an element that is
   not an object. *)
C6_RaisesOnlyOnMalformed ==
    (Entered("extract") /\ payload.t = "obj") =>
        (ExtractReturned <=>
            (HasKey(payload, KeyData) => DataTolerated(DataOf(payload))))

C6_Witness ==
    /\ ExtractRaised
    /\ raised = "AttributeError"
    /\ WithData(JArr(<<EntryPriced, EntryScalar>>)) = payload

(* Every function main has entered, in order, is an initial part of
   fetch, extract, validate, write: none twice, none out of turn. *)
InOrder == Len(steps) <= Len(MainOrder) /\ steps = SubSeq(MainOrder, 1, Len(steps))

(* C7 (as claimed): the steps run in order, each at most once; status 0
   exactly when the writer completed on a non-empty list, status 1 exactly
   when the extracted list was empty. *)
C7_StatusOneIffEmpty ==
    /\ InOrder
    /\ pc = "done" =>
        /\ exitStatus = 0 <=> (WriterCompleted /\ pricing # <<>>)
        /\ exitStatus = 1 <=> EmptyListPath

(* C7 (amended): the steps run in order, each at most once; status 0
   exactly when the writer completed on a non-empty list; main returns 1
   exactly when the extracted list was empty, and the process also ends with
   status 1 when an exception of a step is not caught. *)
C7_OrderAndStatus ==
    /\ InOrder
    /\ pc = "done" =>
        /\ exitStatus \in {0, 1}
        /\ exitStatus = 0 <=> (WriterCompleted /\ pricing # <<>>)
        /\ (exitStatus = 1 /\ raised = "none") <=> EmptyListPath
        /\ exitStatus = 1 <=> (EmptyListPath \/ raised # "none")

C7_Witness ==
    /\ pc = "done"
    /\ steps = MainOrder
    /\ exitStatus = 0
    /\ prev.ok

(* C8: after a successful run the file holds the artifact of the list
   extracted in that run and nothing else, whatever it held before and
   whether or not its directories existed; a second successful run on the
   same response leaves the content of the first. *)
C8_OverwriteWholesale ==
    (pc = "done" /\ exitStatus = 0) =>
        /\ FileIsArtifact
        /\ dirs = NumParents
        /\ (prev.ok /\ prev.resp = resp) => file.text = prev.text

C8_Witness ==
    /\ pc = "done"
    /\ exitStatus = 0
    /\ prev.ok
    /\ prev.resp = resp
    /\ file.text = prev.text
    /\ pre.file = file

(* C9: a line on standard output is the one success line, printed with the
   artifact in place and counting its entries; the empty-list diagnostic is
   on standard error only on the empty-list path, where standard output
   stays empty; no process prints both. *)
C9_Streams ==
    /\ stdout # <<>> =>
        /\ stdout = <<Line("Wrote", Len(pricing))>>
        /\ FileIsArtifact
        /\ Len(json_load(file.text).val.kids) = stdout[1].count
    /\ Diagnosed => (EmptyListPath /\ stdout = <<>>)
    /\ ~(stdout # <<>> /\ Diagnosed)

C9_Witness ==
    /\ pc = "done"
    /\ stdout = <<Line("Wrote", 2)>>
    /\ stderr = <<>>

(* C10: while write_pricing has not been entered (fetch failure, extractor
   error, empty list) the destination file and its parent directories are
   what they were when the process started. *)
C10_NoWriterNoEffect == ~Entered("write") => Untouched

C10_Witness ==
    /\ pc = "done"
    /\ ~Entered("write")
    /\ EmptyListPath
    /\ pre.dirs < NumParents
    /\ dirs = pre.dirs

====
